---- MODULE Spec2Model ----
(***************************************************************************)
(* Multi-model detection consensus engine of DOFModel                      *)
(* (src/app/services/multi_model_inference.py).                            *)
(*                                                                         *)
(* Numbers.  Confidences are floats in the code; here they are integers in *)
(* thousandths (0.92 is 920), so round(x, 3) is a rounding to an integer.  *)
(* Means are kept as exact fractions until they are rounded; binary        *)
(* floating point error below 1e-3 is not modelled.  An IoU is kept as the *)
(* exact fraction <<intersection, union>>.                                 *)
(*                                                                         *)
(* Scheduling.  load_model, unload_model and analyze_with_multiple_models  *)
(* are coroutines of one asyncio event loop (src/main.py) and none of them *)
(* reaches a suspension point: the only await in them is on                *)
(* _run_model_inference, which itself never suspends.  A call therefore    *)
(* runs to its end before the next one starts; pc records the position of  *)
(* the one call in progress.                                               *)
(***************************************************************************)
EXTENDS Integers, Sequences, FiniteSets, TLC

\* ------------------------------------------------------------------ bounds
\* Longest detection list given to the grouping engine in SpecAgg.
MaxDets == 3
\* Most boxes one model's predict() returns in Spec.
MaxBoxes == 1

\* ------------------------------------------------------- program constants
DefaultIouThreshold == 500
BoostPerModel == 50
BoostCap == 150
ConfidenceCap == 1000
HighConfidence == 900
MediumConfidence == 750
CriticalConfidence == 950
LargeArea == 15000
CleanConfidence == 950

\* ------------------------------------------------------------------- enums
ModelType == {"yolov8_crack", "pds_yolo", "mas_yolov11"}

NOT_LOADED == "not_loaded"
LOADING == "loading"
READY == "ready"
ERROR == "error"
ModelStatus == {NOT_LOADED, LOADING, READY, ERROR}

DefectType ==
  {"corrosion", "crack", "weld", "coating", "fouling", "damage", "wear", "unknown"}

severity_order == <<"low", "medium", "high", "critical">>

SeverityIndex(s) == CHOOSE i \in 1..Len(severity_order) : severity_order[i] = s

None == "None"

\* ----------------------------------------------------------------- helpers
Min(a, b) == IF a <= b THEN a ELSE b
Max(a, b) == IF a >= b THEN a ELSE b

RECURSIVE SumSeq(_)
SumSeq(s) == IF s = <<>> THEN 0 ELSE Head(s) + SumSeq(Tail(s))

\* round(num / den, 0) as Python rounds: to nearest, ties to even (num >= 0).
RoundDiv(num, den) ==
  LET q == num \div den
      r == num % den
  IN  IF 2 * r < den THEN q
      ELSE IF 2 * r > den THEN q + 1
      ELSE IF q % 2 = 0 THEN q ELSE q + 1

\* int(np.mean(values)) for non-negative integers: truncation of the mean.
IntMean(values) == SumSeq(values) \div Len(values)

Range(s) == {s[i] : i \in 1..Len(s)}

BoundedSeq(S, n) == UNION {[1..k -> S] : k \in 0..n}

\* --------------------------------------------------------- geometry (IoU)
\* _calculate_iou without the early return for boxes that do not meet.
CalculateIouNoReturn(bbox1, bbox2) ==
  LET x1_i == IF bbox1[1] >= bbox2[1] THEN bbox1[1] ELSE bbox2[1]
      y1_i == IF bbox1[2] >= bbox2[2] THEN bbox1[2] ELSE bbox2[2]
      x2_i == IF bbox1[1] + bbox1[3] <= bbox2[1] + bbox2[3]
              THEN bbox1[1] + bbox1[3] ELSE bbox2[1] + bbox2[3]
      y2_i == IF bbox1[2] + bbox1[4] <= bbox2[2] + bbox2[4]
              THEN bbox1[2] + bbox1[4] ELSE bbox2[2] + bbox2[4]
      intersection == (x2_i - x1_i) * (y2_i - y1_i)
      union == bbox1[3] * bbox1[4] + bbox2[3] * bbox2[4] - intersection
  IN  IF union > 0 THEN <<intersection, union>> ELSE <<0, 1>>

\* The exact fraction <<numerator, denominator>> returned as a float.
CalculateIou(bbox1, bbox2) ==
  LET x1_1 == bbox1[1]
      y1_1 == bbox1[2]
      x2_1 == bbox1[1] + bbox1[3]
      y2_1 == bbox1[2] + bbox1[4]
      x1_2 == bbox2[1]
      y1_2 == bbox2[2]
      x2_2 == bbox2[1] + bbox2[3]
      y2_2 == bbox2[2] + bbox2[4]
      x1_i == Max(x1_1, x1_2)
      y1_i == Max(y1_1, y1_2)
      x2_i == Min(x2_1, x2_2)
      y2_i == Min(y2_1, y2_2)
      intersection == (x2_i - x1_i) * (y2_i - y1_i)
      area1 == bbox1[3] * bbox1[4]
      area2 == bbox2[3] * bbox2[4]
      union == area1 + area2 - intersection
  IN  IF x2_i < x1_i \/ y2_i < y1_i THEN <<0, 1>>
      ELSE IF union > 0 THEN <<intersection, union>>
      ELSE <<0, 1>>

\* IouAtLeast with > for >=, and with any overlap at all accepted.
IouGreater(iou, iou_threshold) == iou[1] * 1000 > iou_threshold * iou[2]

IouPositive(iou, iou_threshold) == iou[1] > 0

\* iou >= iou_threshold, the threshold in thousandths.
IouAtLeast(iou, iou_threshold) == iou[1] * 1000 >= iou_threshold * iou[2]

\* ------------------------------------------------- per-detection classifiers
\* The class names the modelled detectors emit, with the defect type the
\* substring tests of _map_class_to_defect_type give each.
MapClassToDefectType(class_name) ==
  CASE class_name \in {"crack", "fracture"} -> "crack"
    [] class_name \in {"corrosion", "rust"} -> "corrosion"
    [] class_name \in {"weld"} -> "weld"
    [] class_name \in {"coating", "paint"} -> "coating"
    [] class_name \in {"fouling", "marine growth"} -> "fouling"
    [] class_name \in {"damage", "dent"} -> "damage"
    [] class_name \in {"wear", "erosion"} -> "wear"
    [] OTHER -> "unknown"

\* _calculate_severity with the area test written area >= 15000.
CalculateSeverityInclusive(confidence, bbox, defect_type) ==
  LET base == IF confidence >= HighConfidence THEN "high"
              ELSE IF confidence >= MediumConfidence THEN "medium"
              ELSE "low"
      sized == IF bbox[3] * bbox[4] >= LargeArea
               THEN severity_order[SeverityIndex(base) + 1]
               ELSE base
  IN  IF defect_type \in {"crack", "damage"}
         /\ sized = "high" /\ confidence >= CriticalConfidence
      THEN "critical"
      ELSE sized

\* _calculate_severity with the area test written area < 15000.
CalculateSeveritySmall(confidence, bbox, defect_type) ==
  LET base == IF confidence >= HighConfidence THEN "high"
              ELSE IF confidence >= MediumConfidence THEN "medium"
              ELSE "low"
      sized == IF bbox[3] * bbox[4] < LargeArea
               THEN severity_order[SeverityIndex(base) + 1]
               ELSE base
  IN  IF defect_type \in {"crack", "damage"}
         /\ sized = "high" /\ confidence >= CriticalConfidence
      THEN "critical"
      ELSE sized

CalculateSeverity(confidence, bbox, defect_type) ==
  LET base == IF confidence >= HighConfidence THEN "high"
              ELSE IF confidence >= MediumConfidence THEN "medium"
              ELSE "low"
      area == bbox[3] * bbox[4]
      current_idx == SeverityIndex(base)
      sized == IF area > LargeArea /\ current_idx < Len(severity_order)
               THEN severity_order[current_idx + 1]
               ELSE base
  IN  IF defect_type \in {"crack", "damage"}
         /\ sized = "high" /\ confidence >= CriticalConfidence
      THEN "critical"
      ELSE sized

\* One box of a YOLO result turned into a ModelDetection: xyxy corners become
\* [x, y, width, height].
ConvertBox(model_type, box) ==
  LET bbox == <<box.xyxy[1], box.xyxy[2],
                box.xyxy[3] - box.xyxy[1], box.xyxy[4] - box.xyxy[2]>>
      defect_type == MapClassToDefectType(box.cls)
  IN  [model_type |-> model_type,
       bbox |-> bbox,
       confidence |-> box.conf,
       class_name |-> box.cls,
       defect_type |-> defect_type,
       severity |-> CalculateSeverity(box.conf, bbox, defect_type)]

\* -------------------------------------------------------- grouping engine
\* MarkUsed without the used.add(j).
MarkUsedForgets(used, j) == used

\* used.add(j) after group.append(det2).
MarkUsed(used, j) == used \cup {j}

\* Joins if a detection had to overlap every member the group has so far.
JoinsAllMembers(detections, iou_threshold, i, j, group) ==
  \A k \in Range(group) :
    IouAtLeast(CalculateIou(detections[k].bbox, detections[j].bbox), iou_threshold)

\* The test that admits detection j to the group seeded by detection i:
\* iou(det1.bbox, det2.bbox) >= iou_threshold, det1 being the seed.
Joins(detections, iou_threshold, i, j, group) ==
  IouAtLeast(CalculateIou(detections[i].bbox, detections[j].bbox), iou_threshold)

\* The inner loop of _group_overlapping_detections from position j on: the
\* later detections, in order, that are unused and overlap the seed i.
RECURSIVE ScanLater(_, _, _, _, _, _)
ScanLater(detections, iou_threshold, i, j, used, group) ==
  IF j > Len(detections) THEN <<group, used>>
  ELSE IF j \in used
    THEN ScanLater(detections, iou_threshold, i, j + 1, used, group)
  ELSE IF Joins(detections, iou_threshold, i, j, group)
    THEN ScanLater(detections, iou_threshold, i, j + 1,
                   MarkUsed(used, j), Append(group, j))
  ELSE ScanLater(detections, iou_threshold, i, j + 1, used, group)

\* The outer loop from position i on.  A group is the sequence of the
\* positions (1-based) of its members in the input list.
RECURSIVE GroupFrom(_, _, _, _, _)
GroupFrom(detections, iou_threshold, i, used, groups) ==
  IF i > Len(detections) THEN groups
  ELSE IF i \in used
    THEN GroupFrom(detections, iou_threshold, i + 1, used, groups)
  ELSE LET scanned == ScanLater(detections, iou_threshold, i, i + 1,
                                used \cup {i}, <<i>>)
       IN  GroupFrom(detections, iou_threshold, i + 1, scanned[2],
                     Append(groups, scanned[1]))

GroupOverlappingDetections(detections, iou_threshold) ==
  GroupFrom(detections, iou_threshold, 1, {}, <<>>)

\* The ModelDetection objects of one group.
Members(detections, group) == [k \in 1..Len(group) |-> detections[group[k]]]

\* ---------------------------------------------------- consensus synthesizer
\* consensus_boost = min(len(group) * 0.05, 0.15)
ConsensusBoost(group_size) == Min(group_size * BoostPerModel, BoostCap)

\* FinalConfidence without the min(..., 1.0).
FinalConfidenceUncapped(confidence_sum, group_size) ==
  confidence_sum + ConsensusBoost(group_size) * group_size

\* final_confidence = min(avg_confidence + consensus_boost, 1.0), as the
\* numerator of a fraction over len(group).
FinalConfidence(confidence_sum, group_size) ==
  Min(confidence_sum + ConsensusBoost(group_size) * group_size,
      ConfidenceCap * group_size)

TypeCount(defect_types, t) ==
  Cardinality({k \in 1..Len(defect_types) : defect_types[k] = t})

\* MostCommonType if the seed's type were taken.
SeedType(defect_types, set_order) == defect_types[1]

\* max(set(defect_types), key=defect_types.count): the first type, in the
\* iteration order of the set, among those with the highest count.
\* set_order is that iteration order, as a sequence of all defect types.
MostCommonType(defect_types, set_order) ==
  LET present == Range(defect_types)
      best == {t \in present :
                 \A u \in present : TypeCount(defect_types, u) <= TypeCount(defect_types, t)}
      first == CHOOSE i \in 1..Len(set_order) :
                 /\ set_order[i] \in best
                 /\ \A j \in 1..(i - 1) : set_order[j] \notin best
  IN  set_order[first]

\* HighestSeverity if the seed's severity were taken.
FirstSeverity(severities) == severities[1]

\* max(severities, key=severity_order.index)
HighestSeverity(severities) ==
  LET top == CHOOSE i \in 1..Len(severities) :
               \A k \in 1..Len(severities) :
                 SeverityIndex(severities[k]) <= SeverityIndex(severities[i])
  IN  severities[top]

\* DetectedDefect.confidence: Field(ge=0, le=1).
ValidConfidence(confidence) == 0 <= confidence /\ confidence <= 1000

\* group: a non-empty sequence of ModelDetection; id: the uuid4 drawn.
CreateConsensusDefect(group, id, set_order) ==
  LET n == Len(group)
      avg_x == IntMean([k \in 1..n |-> group[k].bbox[1]])
      avg_y == IntMean([k \in 1..n |-> group[k].bbox[2]])
      avg_w == IntMean([k \in 1..n |-> group[k].bbox[3]])
      avg_h == IntMean([k \in 1..n |-> group[k].bbox[4]])
      confidence_sum == SumSeq([k \in 1..n |-> group[k].confidence])
      most_common_type ==
        MostCommonType([k \in 1..n |-> group[k].defect_type], set_order)
  IN  [id |-> id,
       type |-> most_common_type,
       severity |-> HighestSeverity([k \in 1..n |-> group[k].severity]),
       confidence |-> RoundDiv(FinalConfidence(confidence_sum, n), n),
       location |-> [x |-> avg_x, y |-> avg_y, width |-> avg_w, height |-> avg_h],
       description |-> [type |-> most_common_type,
                        count |-> n,
                        models |-> [k \in 1..n |-> group[k].model_type]],
       dimensions |-> [length |-> avg_w, width |-> avg_h, depth |-> None]]

\* ----------------------------------------------------- result dictionaries
\* A Python dict keyed by model type: its keys in insertion order and its
\* values (default is the value read for a missing key, never stored).
EmptyDict(default) == [keys |-> <<>>, val |-> [m \in ModelType |-> default]]

DictSet(d, k, v) ==
  [keys |-> IF k \in Range(d.keys) THEN d.keys ELSE Append(d.keys, k),
   val |-> [d.val EXCEPT ![k] = v]]

\* MultiModelResult.__init__
NewResult ==
  [detections_by_model |-> EmptyDict(<<>>),
   consensus_detections |-> <<>>,
   model_confidences |-> EmptyDict(0),
   overall_confidence |-> 0,
   analysis_metadata |-> None]

\* all_detections: the per-model lists concatenated in dict order.
RECURSIVE ConcatValues(_, _)
ConcatValues(d, k) ==
  IF k > Len(d.keys) THEN <<>>
  ELSE d.val[d.keys[k]] \o ConcatValues(d, k + 1)

AllDetections(result) == ConcatValues(result.detections_by_model, 1)

\* sum(len(dets) for dets in result.detections_by_model.values())
TotalDetections(result) == Len(AllDetections(result))

\* The consensus groups _aggregate_detections builds (none for no detections).
ConsensusGroups(result) ==
  IF AllDetections(result) = <<>> THEN <<>>
  ELSE GroupOverlappingDetections(AllDetections(result), DefaultIouThreshold)

\* ResultAfterCollect if all_detections were the first model's own list
\* (extended in place) instead of a new list.
ResultAfterCollectAliased(result) ==
  LET dets == result.detections_by_model
  IN  IF dets.keys = <<>> THEN result
      ELSE [result EXCEPT
              !.detections_by_model.val[dets.keys[1]] = AllDetections(result)]

\* The result after _aggregate_detections has collected the detections:
\* all_detections is a new list, so the per-model lists are as they were.
ResultAfterCollect(result) == result

\* ids[k] is the uuid4 drawn for the k-th group.
AggregateDetections(result, ids, set_order) ==
  LET all_detections == AllDetections(result)
      consensus_groups == ConsensusGroups(result)
  IN  [k \in 1..Len(consensus_groups) |->
         CreateConsensusDefect(Members(all_detections, consensus_groups[k]),
                               ids[k], set_order)]

\* round(sum(d.confidence for d in detections) / len(detections), 3), or 0.0
ModelConfidence(detections) ==
  IF detections # <<>>
  THEN RoundDiv(SumSeq([k \in 1..Len(detections) |-> detections[k].confidence]),
                Len(detections))
  ELSE 0

\* The value returned when there are entries but no detection in them.
NoDefectConfidence == CleanConfidence

CalculateOverallConfidence(result) ==
  LET confs == result.model_confidences
      dets == result.detections_by_model
      total_detections == TotalDetections(result)
      weighted_sum ==
        SumSeq([k \in 1..Len(confs.keys) |->
                  confs.val[confs.keys[k]] * Len(dets.val[confs.keys[k]])])
  IN  IF confs.keys = <<>> THEN 0
      ELSE IF total_detections = 0 THEN NoDefectConfidence
      ELSE RoundDiv(weighted_sum, total_detections)

\* ResultWithoutAggregation if the overall confidence were computed anyway.
ResultWithoutAggregationScored(result) ==
  [result EXCEPT !.overall_confidence = CalculateOverallConfidence(result)]

\* The result when aggregate is false: the if body is not run.
ResultWithoutAggregation(result) == result

\* =================================================================== state
VARIABLES
  status,           \* ModelInfo.status of each registered model
  model,            \* ModelInfo.model: None or the loaded YOLO handle
  loaded_at,        \* ModelInfo.loaded_at: None or a time
  error_message,    \* ModelInfo.error_message: None or a message
  enabled_models,   \* MultiModelInferenceService.enabled_models
  set_order,        \* iteration order of a set of defect types in this process
  pc,               \* position of the call in progress, "idle" between calls
  cur,              \* model_type of the load_model call in progress
  status_before,    \* status cur had when load_model was entered
  load_result,      \* value load_model returned
  models_to_use,    \* analyze: the list iterated
  idx,              \* analyze: position in models_to_use
  aggregate,        \* analyze: the aggregate argument
  result,           \* analyze: the MultiModelResult under construction
  invoked,          \* analyze: model _run_model_inference was just called on
  failed,           \* analyze: models whose last inference raised
  agg_pc,           \* aggregation pipeline run on its own: position
  detections,       \* its input list
  iou_threshold,    \* its threshold
  groups,           \* its groups, as positions in detections
  consensus,        \* its consensus defects
  again,            \* <<what a second run of the aggregation step gave>>, or <<>>
  sev_in,           \* _calculate_severity on its own: the arguments
  sev_out,          \* and the severity returned
  defects,          \* calculate_overall_condition on its own: the defect list
  condition,        \* and the condition returned
  boxes,            \* _calculate_iou on its own: the two boxes
  ious,             \* and the values returned for (a,b), (b,a), (a,a)
  sev_prev,         \* the arguments and result of the call before, if any
  cond_prev         \* the list and result of the call before, if any

registry == <<status, model, loaded_at, error_message, enabled_models>>
call == <<pc, cur, status_before, load_result, models_to_use, idx, aggregate, result,
         invoked, failed, again>>
functions == <<sev_in, sev_out, defects, condition, boxes, ious, sev_prev,
               cond_prev>>
pipeline == <<agg_pc, detections, iou_threshold, groups, consensus>>
vars == <<registry, set_order, call, pipeline, functions>>

\* uuid4 values a consensus defect id is drawn from.
Uuids == {"defect_0a", "defect_1b"}

\* Iteration orders of the set of defect types (string hashing is seeded per
\* process, so the order is fixed in a process and differs between processes).
SetOrders ==
  {<<"corrosion", "crack", "weld", "coating", "fouling", "damage", "wear", "unknown">>,
   <<"unknown", "wear", "damage", "fouling", "coating", "weld", "crack", "corrosion">>}

\* _initialize_model_registry and __init__
RegistryInit ==
  /\ status = [m \in ModelType |-> NOT_LOADED]
  /\ model = [m \in ModelType |-> None]
  /\ loaded_at = [m \in ModelType |-> None]
  /\ error_message = [m \in ModelType |-> None]
  /\ enabled_models = <<>>

CallInit ==
  /\ pc = "idle"
  /\ cur = None
  /\ status_before = None
  /\ load_result = None
  /\ models_to_use = <<>>
  /\ idx = 0
  /\ aggregate = TRUE
  /\ result = NewResult
  /\ invoked = None
  /\ failed = {}
  /\ again = <<>>

\* The functions checked on their own are not running.
FunctionsIdle ==
  /\ sev_in = None
  /\ sev_out = None
  /\ defects = <<>>
  /\ condition = None
  /\ boxes = None
  /\ ious = <<>>
  /\ sev_prev = <<>>
  /\ cond_prev = <<>>

PipelineIdle ==
  /\ agg_pc = "off"
  /\ detections = <<>>
  /\ iou_threshold = DefaultIouThreshold
  /\ groups = <<>>
  /\ consensus = <<>>

Init ==
  /\ RegistryInit
  /\ CallInit
  /\ PipelineIdle
  /\ FunctionsIdle
  /\ set_order \in SetOrders

\* ------------------------------------------------------------- load_model
\* model_info.status = ModelStatus.LOADING
LoadBegin(model_type) ==
  /\ pc = "idle"
  /\ status' = [status EXCEPT ![model_type] = LOADING]
  /\ pc' = "loading"
  /\ cur' = model_type
  /\ status_before' = status[model_type]
  /\ UNCHANGED <<model, loaded_at, error_message, enabled_models, set_order,
                 load_result, models_to_use, idx, aggregate, result, invoked,
                 failed, again, pipeline,
                 functions>>

\* The try block ran to its end.
LoadSucceed ==
  /\ pc = "loading"
  /\ model' = [model EXCEPT ![cur] = "YOLO"]
  /\ status' = [status EXCEPT ![cur] = READY]
  /\ loaded_at' = [loaded_at EXCEPT ![cur] = "utcnow"]
  /\ enabled_models' = IF cur \notin Range(enabled_models)
                       THEN Append(enabled_models, cur)
                       ELSE enabled_models
  /\ load_result' = TRUE
  /\ pc' = "loaded"
  /\ UNCHANGED <<error_message, set_order, cur, status_before, models_to_use,
                 idx, aggregate, result, invoked, failed, again, pipeline,
                 functions>>

\* StatusAfterFailure if the except branch left the status alone, and if it
\* reset it.
StatusAfterFailureStuck == LOADING

StatusAfterFailureReset == NOT_LOADED

\* The status the except branch leaves.
StatusAfterFailure == ERROR

\* The import of ultralytics or YOLO(model_path) raised.
LoadFail ==
  /\ pc = "loading"
  /\ status' = [status EXCEPT ![cur] = StatusAfterFailure]
  /\ error_message' = [error_message EXCEPT ![cur] = "str(e)"]
  /\ load_result' = FALSE
  /\ pc' = "loaded"
  /\ UNCHANGED <<model, loaded_at, enabled_models, set_order, cur,
                 status_before, models_to_use, idx, aggregate, result, invoked,
                 failed, again, pipeline,
                 functions>>

\* The caller (the load endpoint) has the return value.
LoadReturn ==
  /\ pc = "loaded"
  /\ pc' = "idle"
  /\ cur' = None
  /\ status_before' = None
  /\ load_result' = None
  /\ UNCHANGED <<registry, set_order, models_to_use, idx, aggregate, result,
                 invoked, failed, again, pipeline,
                 functions>>

\* ----------------------------------------------------------- unload_model
\* enabled_models.remove(model_type): the first occurrence goes.
RECURSIVE Remove(_, _)
Remove(list, x) ==
  IF list = <<>> THEN <<>>
  ELSE IF Head(list) = x THEN Tail(list)
  ELSE <<Head(list)>> \o Remove(Tail(list), x)

UnloadModel(model_type) ==
  /\ pc = "idle"
  /\ model' = [model EXCEPT ![model_type] = None]
  /\ status' = [status EXCEPT ![model_type] = NOT_LOADED]
  /\ loaded_at' = [loaded_at EXCEPT ![model_type] = None]
  /\ enabled_models' = IF model_type \in Range(enabled_models)
                       THEN Remove(enabled_models, model_type)
                       ELSE enabled_models
  /\ UNCHANGED <<error_message, set_order, call, pipeline, functions>>

\* ------------------------------------------- analyze_with_multiple_models
\* The models arguments tried; <<>> stands for None and for the empty list,
\* which the code treats alike.
Requests ==
  {<<>>,
   <<"pds_yolo">>,
   <<"yolov8_crack", "pds_yolo">>,
   <<"mas_yolov11", "mas_yolov11">>}

\* The boxes each modelled detector can report: corners x1, y1, x2, y2, the
\* confidence in thousandths and the class name.
ModelBoxes(model_type) ==
  CASE model_type = "yolov8_crack" ->
         {[xyxy |-> <<100, 100, 150, 150>>, conf |-> 920, cls |-> "corrosion"]}
    [] model_type = "pds_yolo" ->
         {[xyxy |-> <<105, 102, 153, 151>>, conf |-> 890, cls |-> "corrosion"]}
    [] model_type = "mas_yolov11" ->
         {[xyxy |-> <<0, 0, 150, 150>>, conf |-> 960, cls |-> "fracture"]}

\* What _run_model_inference can do on a loaded handle: the boxes converted
\* before the loop ended or an exception was caught, and whether one was.
InferenceOutcomes(model_type) ==
  [boxes : BoundedSeq(ModelBoxes(model_type), MaxBoxes), raised : BOOLEAN]

\* The list _run_model_inference returns for an outcome.
RunModelInference(model_type, outcome) ==
  [k \in 1..Len(outcome.boxes) |-> ConvertBox(model_type, outcome.boxes[k])]

\* models_to_use = models if models else self.enabled_models
ModelsToUse(models) == IF models # <<>> THEN models ELSE enabled_models

\* ShouldRun without the status test.
ShouldRunIfEnabled(model_type) == model_type \in Range(enabled_models)

\* Neither continue of the loop body is taken.
ShouldRun(model_type) ==
  /\ model_type \in Range(enabled_models)
  /\ status[model_type] = READY

\* LoopDone if the loop were left after its first iteration.
LoopDoneEarly == idx > 1

\* for model_type in models_to_use: every model has been visited.
LoopDone == idx > Len(models_to_use)

\* StatusAfterInference if a failed inference marked the model.
StatusAfterInferenceMarks(model_type, outcome) ==
  IF outcome.raised THEN [status EXCEPT ![model_type] = ERROR] ELSE status

\* The registry's status after _run_model_inference: its except branch
\* prints the error and assigns nothing.
StatusAfterInference(model_type, outcome) == status

AnalyzeBegin(models, agg) ==
  /\ pc = "idle"
  /\ ModelsToUse(models) # <<>>
  /\ models_to_use' = ModelsToUse(models)
  /\ aggregate' = agg
  /\ result' = NewResult
  /\ idx' = 1
  /\ invoked' = None
  /\ failed' = {}
  /\ pc' = "analyzing"
  /\ UNCHANGED <<registry, set_order, cur, status_before, load_result, again, pipeline,
                 functions>>

\* raise ValueError("No models enabled. Load models first.")
AnalyzeRaise(models, agg) ==
  /\ pc = "idle"
  /\ ModelsToUse(models) = <<>>
  /\ models_to_use' = <<>>
  /\ aggregate' = agg
  /\ result' = NewResult
  /\ idx' = 0
  /\ invoked' = None
  /\ failed' = {}
  /\ pc' = "raised"
  /\ UNCHANGED <<registry, set_order, cur, status_before, load_result, again, pipeline,
                 functions>>

\* One iteration of the loop that takes a continue.
AnalyzeSkip ==
  /\ pc = "analyzing"
  /\ idx <= Len(models_to_use)
  /\ ~ShouldRun(models_to_use[idx])
  /\ idx' = idx + 1
  /\ invoked' = None
  /\ UNCHANGED <<registry, set_order, pc, cur, status_before, load_result, models_to_use,
                 aggregate, result, failed, again, pipeline,
                 functions>>

\* One iteration of the loop that runs the model.  A handle that is None
\* makes model_info.model.predict raise at once.
AnalyzeRun ==
  /\ pc = "analyzing"
  /\ idx <= Len(models_to_use)
  /\ ShouldRun(models_to_use[idx])
  /\ LET model_type == models_to_use[idx]
     IN  \E outcome \in InferenceOutcomes(model_type) :
           /\ model[model_type] = None => (outcome.boxes = <<>> /\ outcome.raised)
           /\ LET dets == RunModelInference(model_type, outcome)
              IN  result' =
                    [result EXCEPT
                       !.detections_by_model = DictSet(@, model_type, dets),
                       !.model_confidences =
                          DictSet(@, model_type, ModelConfidence(dets))]
           /\ failed' = IF outcome.raised THEN failed \cup {model_type}
                        ELSE failed \ {model_type}
           /\ invoked' = model_type
           /\ status' = StatusAfterInference(model_type, outcome)
  /\ idx' = idx + 1
  /\ UNCHANGED <<model, loaded_at, error_message, enabled_models, set_order, pc,
                 cur, status_before, load_result, models_to_use, aggregate,
                 again, pipeline, functions>>

\* if aggregate: consensus detections and overall confidence.  A consensus
\* confidence outside [0, 1] makes DetectedDefect(...) raise.
AnalyzeAggregate ==
  /\ pc = "analyzing"
  /\ LoopDone
  /\ aggregate
  /\ \E ids \in [1..Len(ConsensusGroups(result)) -> Uuids] :
       LET consensus_defects == AggregateDetections(result, ids, set_order)
       IN  IF \A k \in 1..Len(consensus_defects) : ValidConfidence(consensus_defects[k].confidence)
           THEN /\ result' =
                     [ResultAfterCollect(result) EXCEPT
                        !.consensus_detections = consensus_defects,
                        !.overall_confidence =
                           CalculateOverallConfidence(
                             [ResultAfterCollect(result) EXCEPT
                                !.consensus_detections = consensus_defects])]
                /\ pc' = "metadata"
           ELSE /\ result' = result
                /\ pc' = "raised"
  /\ invoked' = None
  /\ UNCHANGED <<registry, set_order, cur, status_before, load_result, models_to_use, idx,
                 aggregate, failed, again, pipeline,
                 functions>>

AnalyzeNoAggregate ==
  /\ pc = "analyzing"
  /\ LoopDone
  /\ ~aggregate
  /\ result' = ResultWithoutAggregation(result)
  /\ pc' = "metadata"
  /\ invoked' = None
  /\ UNCHANGED <<registry, set_order, cur, status_before, load_result, models_to_use, idx,
                 aggregate, failed, again, pipeline,
                 functions>>

\* result.analysis_metadata = {...}; return result
AnalyzeMetadata ==
  /\ pc = "metadata"
  /\ result' =
       [result EXCEPT
          !.analysis_metadata =
             [models_used |-> models_to_use,
              total_detections |-> TotalDetections(result),
              consensus_detections |-> Len(result.consensus_detections),
              analyzed_at |-> "utcnow"]]
  /\ pc' = "returned"
  /\ UNCHANGED <<registry, set_order, cur, status_before, load_result, models_to_use, idx,
                 aggregate, invoked, failed, again, pipeline,
                 functions>>

\* The caller takes the result or the error; the service keeps nothing.
AnalyzeReturn ==
  /\ pc \in {"returned", "raised"}
  /\ pc' = "idle"
  /\ models_to_use' = <<>>
  /\ idx' = 0
  /\ aggregate' = TRUE
  /\ result' = NewResult
  /\ invoked' = None
  /\ failed' = {}
  /\ again' = <<>>
  /\ UNCHANGED <<registry, set_order, cur, status_before, load_result, pipeline,
                 functions>>

\* The caller runs the aggregation step a second time on the result it was
\* given: _aggregate_detections(result), _calculate_overall_confidence(result).
AggregateAgain ==
  /\ pc = "returned"
  /\ aggregate
  /\ again = <<>>
  /\ \E ids \in [1..Len(ConsensusGroups(result)) -> Uuids] :
       again' = <<[consensus_detections |->
                     AggregateDetections(result, ids, set_order),
                   overall_confidence |->
                     CalculateOverallConfidence(ResultAfterCollect(result))]>>
  /\ result' = ResultAfterCollect(result)
  /\ UNCHANGED <<registry, set_order, pc, cur, status_before, load_result,
                 models_to_use, idx, aggregate, invoked, failed, pipeline,
                 functions>>

Next ==
  \/ \E model_type \in ModelType : LoadBegin(model_type)
  \/ LoadSucceed
  \/ LoadFail
  \/ LoadReturn
  \/ \E model_type \in ModelType : UnloadModel(model_type)
  \/ \E models \in Requests, agg \in BOOLEAN : AnalyzeBegin(models, agg)
  \/ \E models \in Requests, agg \in BOOLEAN : AnalyzeRaise(models, agg)
  \/ AnalyzeSkip
  \/ AnalyzeRun
  \/ AnalyzeAggregate
  \/ AnalyzeNoAggregate
  \/ AnalyzeMetadata
  \/ AnalyzeReturn
  \/ AggregateAgain

Spec == Init /\ [][Next]_vars

\* ------------------------------------- the aggregation pipeline on its own
\* _group_overlapping_detections and _create_consensus_defect applied to an
\* arbitrary detection list and threshold, without a service around them.
PipelineBoxes ==
  {<<"yolov8_crack", [xyxy |-> <<100, 100, 150, 150>>, conf |-> 920, cls |-> "corrosion"]>>,
   <<"pds_yolo", [xyxy |-> <<105, 102, 153, 151>>, conf |-> 890, cls |-> "corrosion"]>>,
   <<"pds_yolo", [xyxy |-> <<100, 100, 150, 110>>, conf |-> 500, cls |-> "dent"]>>,
   <<"mas_yolov11", [xyxy |-> <<0, 0, 20, 10>>, conf |-> 960, cls |-> "crack"]>>,
   <<"yolov8_crack", [xyxy |-> <<0, 0, 10, 10>>, conf |-> 800, cls |-> "crack"]>>,
   <<"pds_yolo", [xyxy |-> <<10, 0, 20, 10>>, conf |-> 1000, cls |-> "rust"]>>,
   <<"mas_yolov11", [xyxy |-> <<0, 0, 150, 150>>, conf |-> 970, cls |-> "fracture"]>>,
   <<"yolov8_crack", [xyxy |-> <<100, 100, 150, 150>>, conf |-> 0, cls |-> "anomaly"]>>}

PipelineDetections == {ConvertBox(p[1], p[2]) : p \in PipelineBoxes}

PipelineThresholds == {0, 200, DefaultIouThreshold, 1000}

InitAgg ==
  /\ RegistryInit
  /\ CallInit
  /\ FunctionsIdle
  /\ set_order \in SetOrders
  /\ agg_pc = "input"
  /\ detections \in BoundedSeq(PipelineDetections, MaxDets)
  /\ iou_threshold \in PipelineThresholds
  /\ groups = <<>>
  /\ consensus = <<>>

Group ==
  /\ agg_pc = "input"
  /\ groups' = GroupOverlappingDetections(detections, iou_threshold)
  /\ agg_pc' = "grouped"
  /\ UNCHANGED <<registry, set_order, call, functions, detections, iou_threshold,
                 consensus>>

\* for group in consensus_groups: _create_consensus_defect(group)
Synthesize ==
  /\ agg_pc = "grouped"
  /\ \E ids \in [1..Len(groups) -> Uuids] :
       LET consensus_defects == [k \in 1..Len(groups) |->
                         CreateConsensusDefect(Members(detections, groups[k]),
                                               ids[k], set_order)]
       IN  /\ consensus' = consensus_defects
           /\ agg_pc' = IF \A k \in 1..Len(consensus_defects) :
                             ValidConfidence(consensus_defects[k].confidence)
                        THEN "synthesized"
                        ELSE "raised"
  /\ UNCHANGED <<registry, set_order, call, functions, detections, iou_threshold,
                 groups>>

NextAgg == Group \/ Synthesize

SpecAgg == InitAgg /\ [][NextAgg]_vars

\* --------------------------------------------- _calculate_severity on its own
SeverityConfidences == {0, 749, 750, 751, 899, 900, 901, 949, 950, 960, 1000}

\* Boxes of area 0, 100, 15000, 15001 (1 x 15001), 15125 and 20000.
SeverityBoxes ==
  {<<0, 0, 0, 0>>, <<0, 0, 10, 10>>, <<0, 0, 100, 150>>, <<3, 4, 1, 15001>>,
   <<0, 0, 125, 121>>, <<5, 5, 100, 200>>}

InitSeverity ==
  /\ RegistryInit
  /\ CallInit
  /\ PipelineIdle
  /\ set_order \in SetOrders
  /\ sev_in \in [confidence : SeverityConfidences, bbox : SeverityBoxes,
                 defect_type : DefectType]
  /\ sev_out = None
  /\ defects = <<>>
  /\ condition = None
  /\ boxes = None
  /\ ious = <<>>
  /\ sev_prev = <<>>
  /\ cond_prev = <<>>

Classify ==
  /\ sev_out = None
  /\ sev_out' = CalculateSeverity(sev_in.confidence, sev_in.bbox, sev_in.defect_type)
  /\ UNCHANGED <<registry, set_order, call, pipeline, sev_in, defects, condition,
                 boxes, ious, sev_prev, cond_prev>>

\* _calculate_severity called again with a higher confidence, the box and
\* the type kept.
ClassifySurer ==
  /\ sev_out # None
  /\ \E confidence \in SeverityConfidences :
       /\ confidence > sev_in.confidence
       /\ sev_in' = [sev_in EXCEPT !.confidence = confidence]
       /\ sev_out' = CalculateSeverity(confidence, sev_in.bbox, sev_in.defect_type)
  /\ sev_prev' = <<[confidence |-> sev_in.confidence, bbox |-> sev_in.bbox,
                   defect_type |-> sev_in.defect_type, severity |-> sev_out]>>
  /\ UNCHANGED <<registry, set_order, call, pipeline, defects, condition,
                 boxes, ious, cond_prev>>

\* _calculate_severity called again with a box of larger area, the
\* confidence and the type kept.
ClassifyLarger ==
  /\ sev_out # None
  /\ \E bbox \in SeverityBoxes :
       /\ bbox[3] * bbox[4] > sev_in.bbox[3] * sev_in.bbox[4]
       /\ sev_in' = [sev_in EXCEPT !.bbox = bbox]
       /\ sev_out' = CalculateSeverity(sev_in.confidence, bbox, sev_in.defect_type)
  /\ sev_prev' = <<[confidence |-> sev_in.confidence, bbox |-> sev_in.bbox,
                   defect_type |-> sev_in.defect_type, severity |-> sev_out]>>
  /\ UNCHANGED <<registry, set_order, call, pipeline, defects, condition,
                 boxes, ious, cond_prev>>

NextSeverity == Classify \/ ClassifySurer \/ ClassifyLarger

SpecSeverity == InitSeverity /\ [][NextSeverity]_vars

\* ------------------------------------- calculate_overall_condition on its own
\* Longest defect list given to calculate_overall_condition.
MaxDefects == 4

\* calculate_overall_condition with the POOR test written high_count > 2.
CalculateOverallConditionLate(defect_list) ==
  LET Count(s) == Cardinality({k \in 1..Len(defect_list) : defect_list[k].severity = s})
  IN  IF defect_list = <<>> THEN "excellent"
      ELSE IF Count("critical") > 0 THEN "critical"
      ELSE IF Count("high") > 2 THEN "poor"
      ELSE IF Count("high") = 1 \/ Count("medium") >= 3 THEN "fair"
      ELSE IF Count("medium") > 0 \/ Len(defect_list) > 0 THEN "good"
      ELSE "excellent"

\* calculate_overall_condition with the FAIR test written medium_count == 3.
CalculateOverallConditionExact(defect_list) ==
  LET Count(s) == Cardinality({k \in 1..Len(defect_list) : defect_list[k].severity = s})
  IN  IF defect_list = <<>> THEN "excellent"
      ELSE IF Count("critical") > 0 THEN "critical"
      ELSE IF Count("high") >= 2 THEN "poor"
      ELSE IF Count("high") = 1 \/ Count("medium") = 3 THEN "fair"
      ELSE IF Count("medium") > 0 \/ Len(defect_list) > 0 THEN "good"
      ELSE "excellent"

CalculateOverallCondition(defect_list) ==
  LET critical_count ==
        Cardinality({k \in 1..Len(defect_list) : defect_list[k].severity = "critical"})
      high_count ==
        Cardinality({k \in 1..Len(defect_list) : defect_list[k].severity = "high"})
      medium_count ==
        Cardinality({k \in 1..Len(defect_list) : defect_list[k].severity = "medium"})
  IN  IF defect_list = <<>> THEN "excellent"
      ELSE IF critical_count > 0 THEN "critical"
      ELSE IF high_count >= 2 THEN "poor"
      ELSE IF high_count = 1 \/ medium_count >= 3 THEN "fair"
      ELSE IF medium_count > 0 \/ Len(defect_list) > 0 THEN "good"
      ELSE "excellent"

\* The defects of a list: only the severity of a DetectedDefect is read.
ConditionDefects == [severity : Range(severity_order)]

InitCondition ==
  /\ RegistryInit
  /\ CallInit
  /\ PipelineIdle
  /\ set_order \in SetOrders
  /\ sev_in = None
  /\ sev_out = None
  /\ defects \in BoundedSeq(ConditionDefects, MaxDefects)
  /\ condition = None
  /\ boxes = None
  /\ ious = <<>>
  /\ sev_prev = <<>>
  /\ cond_prev = <<>>

RollUp ==
  /\ condition = None
  /\ condition' = CalculateOverallCondition(defects)
  /\ UNCHANGED <<registry, set_order, call, pipeline, sev_in, sev_out, defects,
                 boxes, ious, sev_prev, cond_prev>>

\* calculate_overall_condition called again on the list with one more defect.
RollUpLonger ==
  /\ condition # None
  /\ Len(defects) < MaxDefects
  /\ \E defect \in ConditionDefects :
       /\ defects' = Append(defects, defect)
       /\ condition' = CalculateOverallCondition(Append(defects, defect))
  /\ cond_prev' = <<[defects |-> defects, condition |-> condition]>>
  /\ UNCHANGED <<registry, set_order, call, pipeline, sev_in, sev_out, boxes, ious,
                 sev_prev>>

\* calculate_overall_condition called again on the list with two neighbours
\* exchanged.
RollUpReordered ==
  /\ condition # None
  /\ \E i \in 1..(Len(defects) - 1) :
       LET swapped == [defects EXCEPT ![i] = defects[i + 1], ![i + 1] = defects[i]]
       IN  /\ swapped # defects
           /\ defects' = swapped
           /\ condition' = CalculateOverallCondition(swapped)
  /\ cond_prev' = <<[defects |-> defects, condition |-> condition]>>
  /\ UNCHANGED <<registry, set_order, call, pipeline, sev_in, sev_out, boxes, ious,
                 sev_prev>>

NextCondition == RollUp \/ RollUpLonger \/ RollUpReordered

SpecCondition == InitCondition /\ [][NextCondition]_vars

\* -------------------------------------------------- _calculate_iou on its own
\* Largest x, y, width and height of the boxes given to _calculate_iou.
MaxCoord == 2

IouBoxes == (0..MaxCoord) \X (0..MaxCoord) \X (0..MaxCoord) \X (0..MaxCoord)

InitIou ==
  /\ RegistryInit
  /\ CallInit
  /\ PipelineIdle
  /\ set_order \in SetOrders
  /\ sev_in = None
  /\ sev_out = None
  /\ defects = <<>>
  /\ condition = None
  /\ boxes \in IouBoxes \X IouBoxes
  /\ ious = <<>>
  /\ sev_prev = <<>>
  /\ cond_prev = <<>>

ComputeIou ==
  /\ ious = <<>>
  /\ ious' = <<CalculateIou(boxes[1], boxes[2]),
               CalculateIou(boxes[2], boxes[1]),
               CalculateIou(boxes[1], boxes[1])>>
  /\ UNCHANGED <<registry, set_order, call, pipeline, sev_in, sev_out, defects,
                 condition, boxes, sev_prev, cond_prev>>

NextIou == ComputeIou

SpecIou == InitIou /\ [][NextIou]_vars

\* ================================================================== claims

\* C1: the groups _group_overlapping_detections returns partition the input
\* by position: no group is empty, every member is a position of the input,
\* and every position of the input is a member of exactly one group.
C1_GroupsPartitionInput ==
  agg_pc \in {"grouped", "synthesized"} =>
    /\ \A g \in 1..Len(groups) : Len(groups[g]) >= 1
    /\ \A g \in 1..Len(groups) : \A k \in 1..Len(groups[g]) :
         groups[g][k] \in 1..Len(detections)
    /\ \A i \in 1..Len(detections) :
         Cardinality({gk \in {<<g, k>> : g \in 1..Len(groups), k \in 1..Len(detections)} :
                        /\ gk[2] <= Len(groups[gk[1]])
                        /\ groups[gk[1]][gk[2]] = i}) = 1

\* C1 witness: three detections grouped into a pair and a singleton.
C1_Witness ==
  /\ agg_pc = "grouped"
  /\ Len(detections) = 3
  /\ Len(groups) = 2
  /\ \E g \in 1..2 : Len(groups[g]) = 2

\* C2 as claimed: the bonus added for a group of size k is
\* min(0.05 * (k - 1), 0.15), so 0 for a singleton.
C2_BonusCountsExtraModels ==
  agg_pc = "synthesized" =>
    \A g \in 1..Len(groups) :
      ConsensusBoost(Len(groups[g])) =
        Min(BoostPerModel * (Len(groups[g]) - 1), BoostCap)

\* The scenario of C3 in a returned result: yolov8_crack reported the one box
\* (100,100,50,50) at 0.92 and pds_yolo the one box (105,102,48,49) at 0.89,
\* both corrosion, and no other model ran.
ScenarioReturned ==
  /\ pc = "returned"
  /\ aggregate
  /\ Range(result.detections_by_model.keys) = {"yolov8_crack", "pds_yolo"}
  /\ Len(result.detections_by_model.val["yolov8_crack"]) = 1
  /\ Len(result.detections_by_model.val["pds_yolo"]) = 1
  /\ LET a == result.detections_by_model.val["yolov8_crack"][1]
         b == result.detections_by_model.val["pds_yolo"][1]
     IN  /\ a.bbox = <<100, 100, 50, 50>> /\ a.confidence = 920
         /\ a.defect_type = "corrosion"
         /\ b.bbox = <<105, 102, 48, 49>> /\ b.confidence = 890
         /\ b.defect_type = "corrosion"

\* C3 as claimed: in that scenario there is one group of size 2 and one
\* consensus defect, of type corrosion and confidence 0.955.
C3_ScenarioConsensus ==
  ScenarioReturned =>
    /\ Len(ConsensusGroups(result)) = 1
    /\ Len(ConsensusGroups(result)[1]) = 2
    /\ Len(result.consensus_detections) = 1
    /\ result.consensus_detections[1].type = "corrosion"
    /\ result.consensus_detections[1].confidence = 955

\* C4: for member confidences in [0, 1] every consensus defect's confidence
\* is in [0, 1], so building the DetectedDefect never raises.
C4_ConsensusConfidenceInRange ==
  /\ agg_pc # "raised"
  /\ agg_pc = "synthesized" =>
       \A k \in 1..Len(consensus) :
         0 <= consensus[k].confidence /\ consensus[k].confidence <= 1000

\* C4 witness: a group whose mean confidence plus bonus exceeds 1.0 and is
\* cut to 1.0.
C4_Witness ==
  /\ agg_pc = "synthesized"
  /\ \E g \in 1..Len(groups) :
       LET members == Members(detections, groups[g])
           n == Len(members)
       IN  /\ SumSeq([k \in 1..n |-> members[k].confidence])
                + ConsensusBoost(n) * n > ConfidenceCap * n
           /\ consensus[g].confidence = 1000

\* C5 as claimed: analyze returns a result only if some model of the list it
\* iterates (the requested models, or the enabled ones) is READY.
C5_EmptyEffectiveSetRaises ==
  pc = "returned" =>
    \E k \in 1..Len(models_to_use) : status[models_to_use[k]] = READY

\* C6 as claimed: an aggregated analysis that returns with no raw detection
\* at all has overall_confidence 0.95, whether or not any model has an entry.
C6_NoDetectionsGivesCleanConfidence ==
  (pc = "returned" /\ aggregate /\ TotalDetections(result) = 0) =>
    result.overall_confidence = CleanConfidence

\* C7 as claimed: a model whose inference raised, at whatever point, has the
\* empty list as its entry in detections_by_model.
C7_FailedModelContributesNothing ==
  pc \in {"analyzing", "metadata", "returned"} =>
    \A m \in failed :
      /\ m \in Range(result.detections_by_model.keys)
      /\ result.detections_by_model.val[m] = <<>>

\* C8: whenever inference has just been invoked on a model, that model is
\* READY and holds a loaded handle.
C8_OnlyReadyModelsRun ==
  invoked # None => (status[invoked] = READY /\ model[invoked] # None)

\* C8 witness: inference is invoked on a model in a call that has passed over
\* an enabled model in ERROR (a reload of it failed).
C8_Witness ==
  /\ invoked # None
  /\ \E k \in 1..(idx - 1) :
       /\ models_to_use[k] \in Range(enabled_models)
       /\ status[models_to_use[k]] = ERROR

SpecTransitions ==
  {<<NOT_LOADED, LOADING>>, <<LOADING, READY>>, <<LOADING, ERROR>>,
   <<READY, NOT_LOADED>>}

CodeTransitions ==
  SpecTransitions \cup
    {<<READY, LOADING>>, <<ERROR, LOADING>>, <<ERROR, NOT_LOADED>>}

\* C9 as claimed: every change of a model's status is NOT_LOADED->LOADING,
\* LOADING->READY, LOADING->ERROR or READY->NOT_LOADED.
C9_OnlySpecTransitions ==
  [][\A m \in ModelType :
       status'[m] # status[m] => <<status[m], status'[m]>> \in SpecTransitions]_vars

\* C9 amended: every change of a model's status is one of those four or
\* READY->LOADING (reload), ERROR->LOADING (retry), ERROR->NOT_LOADED (unload
\* after a failed load).
C9_OnlyCodeTransitions ==
  [][\A m \in ModelType :
       status'[m] # status[m] => <<status[m], status'[m]>> \in CodeTransitions]_vars

\* C9 witness: a load in progress that was entered with the model READY or
\* in ERROR.
C9_Witness ==
  /\ pc = "loading"
  /\ status[cur] = LOADING
  /\ status_before \in {READY, ERROR}

\* C10: a load_model call that has returned returned true with the model
\* READY or false with the model in ERROR, and outside a call in progress no
\* model is LOADING.
C10_LoadEndsReadyOrError ==
  /\ pc = "loaded" =>
       \/ (load_result = TRUE /\ status[cur] = READY)
       \/ (load_result = FALSE /\ status[cur] = ERROR)
  /\ pc # "loading" => \A m \in ModelType : status[m] # LOADING

\* C10 witness: a load entered with the model in ERROR has returned true.
C10_Witness ==
  /\ pc = "loaded"
  /\ status_before = ERROR
  /\ load_result = TRUE
  /\ status[cur] = READY

\* C11: for every confidence, box and type, _calculate_severity returns what
\* the three-step rule gives: base high from 0.90, medium from 0.75, else low;
\* one step up (never above critical) when width * height > 15000; and
\* critical when the type is crack or damage, the base before the area step
\* is high and the confidence is at least 0.95.
C11_SeverityFollowsRule ==
  sev_out # None =>
    LET confidence == sev_in.confidence
        area == sev_in.bbox[3] * sev_in.bbox[4]
        rank == [s \in {"low", "medium", "high", "critical"} |->
                   CASE s = "low" -> 0 [] s = "medium" -> 1
                     [] s = "high" -> 2 [] s = "critical" -> 3]
        base == IF confidence >= 900 THEN "high"
                ELSE IF confidence >= 750 THEN "medium" ELSE "low"
        raised == IF area > 15000
                  THEN CHOOSE s \in DOMAIN rank : rank[s] = Min(rank[base] + 1, 3)
                  ELSE base
        expected == IF sev_in.defect_type \in {"crack", "damage"}
                       /\ base = "high" /\ confidence >= 950
                    THEN "critical"
                    ELSE raised
    IN  sev_out = expected

\* C11 witness: confidence 0.96, area 20000, type crack classified critical.
C11_Witness ==
  /\ sev_out = "critical"
  /\ sev_in.confidence = 960
  /\ sev_in.bbox[3] * sev_in.bbox[4] = 20000
  /\ sev_in.defect_type = "crack"

\* C12: calculate_overall_condition returns critical if any defect is
\* critical; otherwise poor if at least 2 are high; otherwise fair if exactly
\* 1 is high or at least 3 are medium; otherwise good if the list is
\* non-empty; and excellent exactly when the list is empty.
C12_ConditionFollowsPriority ==
  condition # None =>
    LET Number(s) == Cardinality({k \in DOMAIN defects : defects[k].severity = s})
    IN  /\ Number("critical") >= 1 => condition = "critical"
        /\ Number("critical") = 0 /\ Number("high") >= 2 => condition = "poor"
        /\ Number("critical") = 0 /\ Number("high") = 1 => condition = "fair"
        /\ Number("critical") = 0 /\ Number("high") = 0 /\ Number("medium") >= 3
             => condition = "fair"
        /\ Number("critical") = 0 /\ Number("high") = 0 /\ Number("medium") < 3
             /\ Len(defects) > 0 => condition = "good"
        /\ condition = "excellent" <=> Len(defects) = 0

\* C12 witness: one critical defect among others has rolled up to critical.
C12_Witness ==
  /\ condition = "critical"
  /\ Len(defects) = MaxDefects
  /\ Cardinality({k \in DOMAIN defects : defects[k].severity = "critical"}) = 1
  /\ \E k \in DOMAIN defects : defects[k].severity = "high"

C14_IouSymmetricBounded ==
  ious # <<>> =>
    LET a == boxes[1]
        b == boxes[2]
        ab == ious[1]
        ba == ious[2]
        aa == ious[3]
        Apart == \/ a[1] + a[3] <= b[1]
                 \/ b[1] + b[3] <= a[1]
                 \/ a[2] + a[4] <= b[2]
                 \/ b[2] + b[4] <= a[2]
    IN  /\ ab[2] > 0 /\ ba[2] > 0 /\ aa[2] > 0
        /\ ab[1] * ba[2] = ba[1] * ab[2]
        /\ 0 <= ab[1] /\ ab[1] <= ab[2]
        /\ a[3] > 0 /\ a[4] > 0 => aa[1] = aa[2]
        /\ Apart => ab[1] = 0
        /\ a[3] * a[4] = 0 /\ b[3] * b[4] = 0 => ab[1] = 0

\* C14 witness: the IoU of two unit boxes that share an edge has been
\* computed and is 0, and that of the first with itself is 1.
C14_Witness ==
  /\ ious # <<>>
  /\ boxes[1] = <<0, 0, 1, 1>>
  /\ boxes[2] = <<1, 0, 1, 1>>
  /\ ious[1][1] = 0
  /\ ious[3][1] = ious[3][2]

\* C15: a detection whose IoU with every other detection is below the
\* threshold is alone in its group, and that group yields a consensus defect
\* of its own, attributed to that one detection; two detections of two models
\* with mutual IoU 0.2 under the default threshold give two singleton groups
\* and two consensus defects; there are as many consensus defects as groups.
C15_IsolatedDetectionKept ==
  LET n == Len(detections)
      Below(i, j) ==
        LET iou == CalculateIou(detections[i].bbox, detections[j].bbox)
        IN  iou[1] * 1000 < iou_threshold * iou[2]
      alone == {i \in 1..n : \A j \in 1..n \ {i} : Below(i, j)}
  IN  /\ agg_pc # "input" =>
           /\ \A i \in alone : \E g \in 1..Len(groups) : groups[g] = <<i>>
           /\ (/\ n = 2
               /\ detections[1].model_type # detections[2].model_type
               /\ CalculateIou(detections[1].bbox, detections[2].bbox)[1] * 5
                    = CalculateIou(detections[1].bbox, detections[2].bbox)[2]
               /\ iou_threshold = 500)
                => groups = <<<<1>>, <<2>>>>
      /\ agg_pc \notin {"input", "grouped"} =>
           /\ Len(consensus) = Len(groups)
           /\ \A i \in alone : \E g \in 1..Len(groups) :
                /\ groups[g] = <<i>>
                /\ consensus[g].description.count = 1
                /\ consensus[g].description.models = <<detections[i].model_type>>
                /\ consensus[g].location.x = detections[i].bbox[1]
                /\ consensus[g].location.y = detections[i].bbox[2]

\* C15 witness: two detections of two models with mutual IoU 0.2 have given
\* two singleton groups and two consensus defects under threshold 0.5.
C15_Witness ==
  /\ agg_pc = "synthesized"
  /\ iou_threshold = 500
  /\ Len(detections) = 2
  /\ detections[1].model_type # detections[2].model_type
  /\ CalculateIou(detections[1].bbox, detections[2].bbox)[1] * 5
       = CalculateIou(detections[1].bbox, detections[2].bbox)[2]
  /\ groups = <<<<1>>, <<2>>>>
  /\ Len(consensus) = 2

\* C16: in the groups of _group_overlapping_detections the first member of a
\* group, its seed, is its earliest detection; groups come in increasing seed
\* position; every other member has IoU >= threshold with the seed of its
\* group; and every detection has IoU < threshold with the seed of every
\* earlier group.
C16_SeedOrderedGroups ==
  agg_pc # "input" =>
    LET AtLeast(i, j) ==
          LET iou == CalculateIou(detections[i].bbox, detections[j].bbox)
          IN  iou[1] * 1000 >= iou_threshold * iou[2]
    IN  /\ \A g \in 1..Len(groups) :
             /\ Len(groups[g]) >= 1
             /\ \A k \in 2..Len(groups[g]) :
                  /\ groups[g][1] < groups[g][k]
                  /\ AtLeast(groups[g][1], groups[g][k])
        /\ \A g, h \in 1..Len(groups) : g < h => groups[g][1] < groups[h][1]
        /\ \A g, h \in 1..Len(groups) : \A k \in 1..Len(groups[g]) :
             h < g => ~AtLeast(groups[h][1], groups[g][k])

\* C16 witness: a later group exists and some group holds a member whose IoU
\* with the seed equals the threshold.
C16_Witness ==
  /\ agg_pc = "grouped"
  /\ Len(groups) >= 2
  /\ \E g \in 1..Len(groups) : \E k \in 2..Len(groups[g]) :
       LET iou == CalculateIou(detections[groups[g][1]].bbox,
                               detections[groups[g][k]].bbox)
       IN  iou[1] * 1000 = iou_threshold * iou[2]

\* C17: a detection joins the group of a seed on its IoU with that seed
\* alone: every later detection that no earlier group has taken and whose IoU
\* with the seed is >= threshold is in the seed's group, whatever its IoU
\* with the other members, so that two members of a group may have IoU 0.
C17_OnlySeedOverlapChecked ==
  agg_pc # "input" =>
    \A g \in 1..Len(groups) : \A j \in 1..Len(detections) :
      LET seed == groups[g][1]
          iou == CalculateIou(detections[seed].bbox, detections[j].bbox)
          taken == UNION {Range(groups[h]) : h \in 1..(g - 1)}
      IN  (j > seed /\ j \notin taken /\ iou[1] * 1000 >= iou_threshold * iou[2])
            => j \in Range(groups[g])

\* C17 witness: under threshold 0.5 one group holds two detections whose
\* mutual IoU is 0.
C17_Witness ==
  /\ agg_pc = "grouped"
  /\ iou_threshold = 500
  /\ \E g \in 1..Len(groups) : \E k, l \in 2..Len(groups[g]) :
       /\ k # l
       /\ CalculateIou(detections[groups[g][k]].bbox,
                       detections[groups[g][l]].bbox)[1] = 0

\* C20: the severity of a consensus defect is the highest of its members'
\* severities under low < medium < high < critical: some member has it and
\* no member has a higher one.
C20_ConsensusSeverityIsMaximum ==
  agg_pc \notin {"input", "grouped"} =>
    LET rank == [s \in {"low", "medium", "high", "critical"} |->
                   CASE s = "low" -> 0 [] s = "medium" -> 1
                     [] s = "high" -> 2 [] s = "critical" -> 3]
    IN  \A g \in 1..Len(groups) :
          /\ \E k \in Range(groups[g]) :
               detections[k].severity = consensus[g].severity
          /\ \A k \in Range(groups[g]) :
               rank[detections[k].severity] <= rank[consensus[g].severity]

\* C20 witness: a consensus defect has a severity higher than that of the
\* seed of its group.
C20_Witness ==
  /\ agg_pc = "synthesized"
  /\ \E g \in 1..Len(groups) :
       /\ Len(groups[g]) >= 2
       /\ detections[groups[g][1]].severity = "medium"
       /\ consensus[g].severity = "high"

\* C18: when analyze_with_multiple_models has returned, detections_by_model
\* and model_confidences have the same keys, namely the requested models that
\* are READY (all READY models when none was requested); a model among them
\* without detections has confidence 0.0; a model that did not run has no
\* entry in either mapping.
C18_EntriesAreEffectiveSet ==
  pc = "returned" =>
    LET ran == Range(result.detections_by_model.keys)
        scored == Range(result.model_confidences.keys)
        ready == {m \in ModelType : status[m] = READY}
    IN  /\ ran = scored
        /\ ran = Range(models_to_use) \cap ready
        /\ models_to_use = enabled_models => ran = ready
        /\ \A m \in ran :
             result.detections_by_model.val[m] = <<>>
               => result.model_confidences.val[m] = 0
        /\ \A m \in ModelType \ ran :
             /\ result.detections_by_model.val[m] = <<>>
             /\ result.model_confidences.val[m] = 0

\* C18 witness: a call has returned in which one requested model was skipped
\* and one that ran found nothing.
C18_Witness ==
  /\ pc = "returned"
  /\ \E m \in Range(models_to_use) : m \notin Range(result.detections_by_model.keys)
  /\ \E m \in Range(result.model_confidences.keys) :
       /\ result.detections_by_model.val[m] = <<>>
       /\ result.model_confidences.val[m] = 0

\* C19: in the metadata of a returned result models_used lists exactly the
\* models on which inference was run, total_detections is the sum of the
\* lengths of the per-model lists and consensus_detections the length of the
\* consensus list.
C19_MetadataListsModelsRun ==
  pc = "returned" =>
    /\ Range(result.analysis_metadata.models_used)
         = Range(result.detections_by_model.keys)
    /\ result.analysis_metadata.total_detections
         = SumSeq([k \in 1..Len(result.detections_by_model.keys) |->
                     Len(result.detections_by_model.val[
                           result.detections_by_model.keys[k]])])
    /\ result.analysis_metadata.consensus_detections
         = Len(result.consensus_detections)

\* C21: the type of a consensus defect is a defect_type that occurs in its
\* group, no other type occurs in the group strictly more often, and a type
\* that occurs more often than every other type is the one chosen.
C21_ConsensusTypeIsMostFrequent ==
  agg_pc \notin {"input", "grouped"} =>
    \A g \in 1..Len(groups) :
      LET Occurs(t) == Cardinality({k \in 1..Len(groups[g]) :
                                      detections[groups[g][k]].defect_type = t})
          chosen == consensus[g].type
      IN  /\ Occurs(chosen) >= 1
          /\ \A t \in DefectType : Occurs(t) <= Occurs(chosen)
          /\ \A t \in DefectType :
               (\A u \in DefectType \ {t} : Occurs(u) < Occurs(t)) => chosen = t

\* C21 witness: a group of three whose seed has one type and whose two other
\* members share another has given a defect of the type of the two.
C21_Witness ==
  /\ agg_pc = "synthesized"
  /\ \E g \in 1..Len(groups) :
       /\ Len(groups[g]) = 3
       /\ detections[groups[g][2]].defect_type = detections[groups[g][3]].defect_type
       /\ detections[groups[g][1]].defect_type # detections[groups[g][2]].defect_type
       /\ consensus[g].type = detections[groups[g][2]].defect_type

\* C22: the count in the description of a consensus defect, and the group
\* size the confidence bonus is taken for, is the number of distinct models
\* with a detection in the group; two detections of one model in a group do
\* not count as two agreeing models.
C22_CountIsDistinctModels ==
  agg_pc \notin {"input", "grouped"} =>
    \A g \in 1..Len(groups) :
      LET n == Len(groups[g])
          agreeing == Cardinality({detections[k].model_type : k \in Range(groups[g])})
          confidence_sum == SumSeq([k \in 1..n |-> detections[groups[g][k]].confidence])
      IN  /\ consensus[g].description.count = agreeing
          /\ consensus[g].confidence
               = RoundDiv(Min(confidence_sum + ConsensusBoost(agreeing) * n,
                              ConfidenceCap * n), n)

\* C23: within one analyze call the aggregation starts only when every model
\* dispatched for the call has an entry in detections_by_model, the models
\* recorded as failed included, and no entry of detections_by_model is
\* written once the aggregation has begun.
C23_AggregationIsJoinPoint ==
  [][/\ (pc = "analyzing" /\ pc' # "analyzing") =>
          /\ \A k \in 1..Len(models_to_use) :
               (models_to_use[k] \in Range(enabled_models)
                  /\ status[models_to_use[k]] = READY)
                 => models_to_use[k] \in Range(result.detections_by_model.keys)
          /\ failed \subseteq Range(result.detections_by_model.keys)
          /\ result'.detections_by_model = result.detections_by_model
     /\ (pc \in {"metadata", "returned"} /\ pc' # "idle") =>
          result'.detections_by_model = result.detections_by_model]_vars

\* C23 witness: the aggregation has run on the entries of two models, one of
\* them recorded as failed.
C23_Witness ==
  /\ pc = "metadata"
  /\ aggregate
  /\ Len(result.detections_by_model.keys) = 2
  /\ failed # {}
  /\ result.consensus_detections # <<>>

\* C24: no step of analyze_with_multiple_models changes the status, handle,
\* error message or load time of a model or the enabled-models list, whether
\* the call succeeds, skips models, absorbs a failure or raises; and the
\* consensus of a call accounts for each detection of that call exactly once,
\* whatever was analysed before.
C24_AnalyzeLeavesRegistry ==
  [][/\ (\/ (pc = "idle" /\ pc' \in {"analyzing", "raised"})
         \/ pc \in {"analyzing", "metadata", "returned", "raised"}) =>
          /\ status' = status
          /\ model' = model
          /\ error_message' = error_message
          /\ loaded_at' = loaded_at
          /\ enabled_models' = enabled_models
     /\ (pc' = "returned" /\ aggregate') =>
          SumSeq([k \in 1..Len(result'.consensus_detections) |->
                    result'.consensus_detections[k].description.count])
            = SumSeq([k \in 1..Len(result'.detections_by_model.keys) |->
                        Len(result'.detections_by_model.val[
                              result'.detections_by_model.keys[k]])])]_vars

\* C24 witness: a call has returned in which one model was skipped and the
\* inference of another raised.
C24_Witness ==
  /\ pc = "returned"
  /\ failed # {}
  /\ \E m \in Range(models_to_use) : status[m] # READY

\* C29: with aggregate false the returned result has no consensus defect,
\* overall confidence 0.0 and metadata consensus count 0 however many raw
\* detections there are, and its per-model lists and confidences are filled
\* as with aggregate true: an entry for every requested READY model, the
\* confidence being the rounded mean of the model's detections or 0.0.
C29_NoAggregationLeavesConsensusEmpty ==
  pc = "returned" =>
    /\ ~aggregate =>
         /\ result.consensus_detections = <<>>
         /\ result.overall_confidence = 0
         /\ result.analysis_metadata.consensus_detections = 0
    /\ Range(result.detections_by_model.keys)
         = {m \in Range(models_to_use) : status[m] = READY}
    /\ result.model_confidences.keys = result.detections_by_model.keys
    /\ \A m \in Range(result.detections_by_model.keys) :
         LET dets == result.detections_by_model.val[m]
             total == SumSeq([k \in 1..Len(dets) |-> dets[k].confidence])
         IN  result.model_confidences.val[m]
               = IF dets = <<>> THEN 0 ELSE RoundDiv(total, Len(dets))

\* C29 witness: a call with aggregate false has returned the detections of
\* two models.
C29_Witness ==
  /\ pc = "returned"
  /\ ~aggregate
  /\ result.analysis_metadata.total_detections >= 2
  /\ result.model_confidences.val["yolov8_crack"] > 0

\* C25: between calls of load_model and unload_model the enabled-models list
\* has no duplicates and holds a model exactly when its status is READY.
C25_EnabledIffReady ==
  pc = "idle" =>
    /\ \A i, j \in 1..Len(enabled_models) :
         enabled_models[i] = enabled_models[j] => i = j
    /\ \A m \in ModelType : m \in Range(enabled_models) <=> status[m] = READY

\* C26: between calls of load_model and unload_model a model holds a loaded
\* handle and a load time exactly when its status is READY; a model in
\* NOT_LOADED or ERROR holds no handle.
C26_HandleIffReady ==
  pc = "idle" =>
    \A m \in ModelType :
      /\ model[m] # None <=> status[m] = READY
      /\ loaded_at[m] # None <=> status[m] = READY

\* C27: get_model_status reports an error for a model only if the model's
\* status is ERROR; after a failed load followed by a successful load or by
\* an unload the reported error is null.
C27_ErrorOnlyInError ==
  \A m \in ModelType : error_message[m] # None => status[m] \in {ERROR, LOADING}

\* C28: under excellent < good < fair < poor < critical a defect list with
\* one more defect never has a strictly better condition than the list had,
\* and the condition depends only on the numbers of critical, high and medium
\* defects and on whether the list is empty, not on the order.
C28_ConditionMonotone ==
  cond_prev # <<>> =>
    LET before == cond_prev[1].defects
        rank == [c \in {"excellent", "good", "fair", "poor", "critical"} |->
                   CASE c = "excellent" -> 0 [] c = "good" -> 1 [] c = "fair" -> 2
                     [] c = "poor" -> 3 [] c = "critical" -> 4]
        Number(list, s) == Cardinality({k \in DOMAIN list : list[k].severity = s})
    IN  /\ (Len(defects) = Len(before) + 1 /\ SubSeq(defects, 1, Len(before)) = before)
             => rank[condition] >= rank[cond_prev[1].condition]
        /\ (/\ \A s \in {"critical", "high", "medium"} :
                 Number(defects, s) = Number(before, s)
            /\ (defects = <<>>) = (before = <<>>))
             => condition = cond_prev[1].condition

\* C28 witness: a fourth medium defect has been added to a list of three
\* whose condition was fair, and the condition is still fair.
C28_Witness ==
  /\ cond_prev # <<>>
  /\ Len(cond_prev[1].defects) = 3
  /\ \A k \in 1..3 : cond_prev[1].defects[k].severity = "medium"
  /\ cond_prev[1].condition = "fair"
  /\ Len(defects) = 4
  /\ defects[4].severity = "medium"
  /\ condition = "fair"

\* C30: for a fixed box and type a higher confidence never gives a lower
\* severity, and for a fixed confidence and type a larger box area never
\* gives a lower severity, under low < medium < high < critical.
C30_SeverityMonotone ==
  sev_prev # <<>> =>
    LET before == sev_prev[1]
        rank == [s \in {"low", "medium", "high", "critical"} |->
                   CASE s = "low" -> 0 [] s = "medium" -> 1
                     [] s = "high" -> 2 [] s = "critical" -> 3]
        Area(bbox) == bbox[3] * bbox[4]
    IN  /\ (/\ sev_in.bbox = before.bbox
            /\ sev_in.defect_type = before.defect_type
            /\ sev_in.confidence >= before.confidence)
             => rank[sev_out] >= rank[before.severity]
        /\ (/\ sev_in.confidence = before.confidence
            /\ sev_in.defect_type = before.defect_type
            /\ Area(sev_in.bbox) >= Area(before.bbox))
             => rank[sev_out] >= rank[before.severity]

\* C30 witness: a crack of confidence 0.96 classified critical in a small
\* box is classified again in a box of area 20000 and is still critical.
C30_Witness ==
  /\ sev_prev # <<>>
  /\ sev_prev[1].defect_type = "crack"
  /\ sev_prev[1].confidence = 960
  /\ sev_prev[1].bbox[3] * sev_prev[1].bbox[4] = 100
  /\ sev_prev[1].severity = "critical"
  /\ sev_in.confidence = 960
  /\ sev_in.bbox[3] * sev_in.bbox[4] = 20000
  /\ sev_out = "critical"

====
